---- MODULE Spec2Model ----
(***************************************************************************)
(* The employee-mention matcher of scripts/create_dataset.py (and its copy *)
(* in scripts/process_takeout.py): similarity_score,                       *)
(* extract_potential_names, match_employee_to_review and                   *)
(* add_employee_matches_to_dataframe.                                      *)
(*                                                                         *)
(* A Python str is a sequence of one-character strings.  A Python value    *)
(* that may be a str, None or float('nan') is a record [type, val].        *)
(* A similarity score 2.0*M/T is kept as the pair <<2*M, T>> and compared  *)
(* by cross-multiplication; a threshold is kept in hundredths.             *)
(***************************************************************************)
EXTENDS Integers, Sequences, FiniteSets, TLC

VARIABLES
    pc,               \* position of the running function
    a, b,             \* arguments of the last similarity_score call
    score,            \* its result, <<2*M, T>>
    review_text,      \* match_employee_to_review: review_text
    restaurant_name,  \* match_employee_to_review: restaurant_name
    min_similarity,   \* match_employee_to_review: min_similarity (hundredths)
    employee_dict,    \* the roster: entries in dict insertion order
    potential_names,  \* the list extract_potential_names returned
    matches,          \* the list match_employee_to_review returned
    df,               \* the review rows of the dataframe
    tz_aware,         \* df['published_datetime'] is a timezone-aware column
    now,              \* pd.Timestamp.now(), in months
    recent,           \* the row positions of recent_df, in iteration order
    pos,              \* the position of the loop of line 190 in recent_df
    api,              \* the pages the reviews endpoint answers with
    page_token,       \* fetch_reviews: page_token
    requested,        \* the pageToken of every request sent so far
    collected,        \* fetch_reviews: its list `reviews`
    reviews,          \* _sync_restaurant_reviews: reviews
    reviews_sorted,   \* _sync_restaurant_reviews: reviews_sorted
    running_sum,      \* _sync_restaurant_reviews: running_sum
    sync_idx,         \* the reviews the loop of line 138 has been through
    rows,             \* _sync_restaurant_reviews: rows
    sheet             \* the values of the restaurant's tab

\* the state of the matcher scripts
scriptVars == <<a, b, score, review_text, restaurant_name, min_similarity,
                employee_dict, potential_names, matches, df, tz_aware, now,
                recent, pos>>

\* the state of the review sync service
syncVars == <<api, page_token, requested, collected, reviews, reviews_sorted,
              running_sum, sync_idx, rows, sheet>>

vars == <<pc, scriptVars, syncVars>>

\* the sync service is not running
SyncIdle ==
    /\ api = << >> /\ page_token = 0 /\ requested = << >>
    /\ collected = << >> /\ reviews = << >> /\ reviews_sorted = << >>
    /\ running_sum = 0 /\ sync_idx = 0 /\ rows = << >> /\ sheet = << >>

----------------------------------------------------------------------------
(* Characters and str methods                                              *)

UpperLetters == <<"A","B","C","D","E","F","G","H","I","J","K","L","M",
                  "N","O","P","Q","R","S","T","U","V","W","X","Y","Z">>
LowerLetters == <<"a","b","c","d","e","f","g","h","i","j","k","l","m",
                  "n","o","p","q","r","s","t","u","v","w","x","y","z">>
Digits == <<"0","1","2","3","4","5","6","7","8","9">>

SeqRange(s) == {s[i] : i \in 1..Len(s)}

UpperSet == SeqRange(UpperLetters)
LowerSet == SeqRange(LowerLetters)
DigitSet == SeqRange(Digits)
WhiteSpace == {" ", "\t", "\n", "\r", "\f"}    \* str.isspace, \s

\* str.lower() / str.upper() on one character
LowerChar(c) ==
    IF c \in UpperSet
    THEN LowerLetters[CHOOSE i \in 1..26 : UpperLetters[i] = c]
    ELSE c
UpperChar(c) ==
    IF c \in LowerSet
    THEN UpperLetters[CHOOSE i \in 1..26 : LowerLetters[i] = c]
    ELSE c

\* str.lower()
lower(s) == [i \in 1..Len(s) |-> LowerChar(s[i])]

\* s[i:j] with 1-based i and exclusive j
Slice(s, i, j) == [k \in 1..(j - i) |-> s[i + k - 1]]

\* str.strip()
strip(s) ==
    LET keep == {i \in 1..Len(s) : s[i] \notin WhiteSpace}
    IN  IF keep = {} THEN <<>>
        ELSE LET lo == CHOOSE i \in keep : \A j \in keep : i <= j
                 hi == CHOOSE i \in keep : \A j \in keep : j <= i
             IN  Slice(s, lo, hi + 1)

\* sub in s
Contains(s, sub) ==
    \E i \in 1..(Len(s) - Len(sub) + 1) : Slice(s, i, i + Len(sub)) = sub

\* Python values that reach the matcher as a comment
Str(s) == [type |-> "str", val |-> s]
None == [type |-> "NoneType", val |-> <<>>]
NaN == [type |-> "float", val |-> <<>>]
\* a comment read_csv parsed as a number
Five == [type |-> "int", val |-> <<"5">>]

----------------------------------------------------------------------------
(* difflib.SequenceMatcher(None, a, b).ratio(), for sequences shorter than *)
(* 200 elements (the autojunk heuristic is inactive below that length).    *)

RECURSIVE RunLen(_, _, _, _, _, _)
\* length of the common run a[i..], b[j..] inside [i, ahi) x [j, bhi)
RunLen(x, y, i, j, ahi, bhi) ==
    IF i < ahi /\ j < bhi /\ x[i] = y[j]
    THEN 1 + RunLen(x, y, i + 1, j + 1, ahi, bhi)
    ELSE 0

\* SequenceMatcher.find_longest_match: the block of maximal size; of those
\* the one starting earliest in a; of those the one starting earliest in b
find_longest_match(x, y, alo, ahi, blo, bhi) ==
    LET cands == {<<i, j, RunLen(x, y, i, j, ahi, bhi)>> :
                      i \in alo..(ahi - 1), j \in blo..(bhi - 1)}
        hits == {t \in cands : t[3] > 0}
    IN  IF hits = {} THEN <<alo, blo, 0>>
        ELSE CHOOSE t \in hits : \A u \in hits :
                 \/ t[3] > u[3]
                 \/ t[3] = u[3] /\ t[1] < u[1]
                 \/ t[3] = u[3] /\ t[1] = u[1] /\ t[2] <= u[2]

RECURSIVE MatchedSize(_, _, _, _, _, _)
\* SequenceMatcher.get_matching_blocks: the summed size of the blocks found
\* in a[alo:ahi], b[blo:bhi] (longest block, then left and right remainders)
MatchedSize(x, y, alo, ahi, blo, bhi) ==
    LET m == find_longest_match(x, y, alo, ahi, blo, bhi)
        i == m[1]
        j == m[2]
        k == m[3]
    IN  IF k = 0 THEN 0
        ELSE k
             + (IF alo < i /\ blo < j
                THEN MatchedSize(x, y, alo, i, blo, j) ELSE 0)
             + (IF i + k < ahi /\ j + k < bhi
                THEN MatchedSize(x, y, i + k, ahi, j + k, bhi) ELSE 0)

\* difflib._calculate_ratio: 2.0 * matches / length, 1.0 when length is 0
calculate_ratio(m, length) ==
    IF length # 0 THEN <<2 * m, length>> ELSE <<1, 1>>

\* SequenceMatcher(None, x, y).ratio()
ratio(x, y) ==
    calculate_ratio(MatchedSize(x, y, 1, Len(x) + 1, 1, Len(y) + 1),
                    Len(x) + Len(y))

\* similarity_score with only the first argument lowercased
similarity_score_one_lower(x, y) == ratio(lower(x), y)

\* similarity_score(a, b)
similarity_score(x, y) == ratio(lower(x), lower(y))

\* comparisons of scores (floats of small rationals compare as the rationals)
ScoreGT(s, t) == s[1] * t[2] > t[1] * s[2]
ScoreEQ(s, t) == s[1] * t[2] = t[1] * s[2]
\* score >= m, m in hundredths
ScoreGE(s, m) == s[1] * 100 >= m * s[2]
ScoreZero == <<0, 1>>

----------------------------------------------------------------------------
(* The part of Python's re that the extractor's patterns use: a            *)
(* backtracking matcher that yields the ways a node can match at a         *)
(* position, in the order re tries them (an alternation left to right, a   *)
(* greedy repetition longest first).  A way is <<end, gs, ge>>: the        *)
(* position after the match and the span [gs, ge) of group 1 (0, 0 while   *)
(* the group has not matched).                                             *)

WordChars == UpperSet \cup LowerSet \cup DigitSet \cup {"_"}    \* \w

Chr(S) == [op |-> "chr", set |-> S]          \* a character class
Lit(s) == [op |-> "lit", str |-> s]          \* a literal string
Cat(xs) == [op |-> "cat", xs |-> xs]         \* concatenation
Alt(xs) == [op |-> "alt", xs |-> xs]         \* x|y|...
Rep(x, n) == [op |-> "rep", x |-> x, min |-> n]   \* greedy x{n,}
Opt(x) == [op |-> "opt", x |-> x]            \* greedy x?
Grp(x) == [op |-> "grp", x |-> x]            \* ( x ), group 1
WB == [op |-> "wb"]                          \* \b

\* one character against a class, under re.IGNORECASE when ic
ChrMatch(S, c, ic) ==
    \/ c \in S
    \/ ic /\ (LowerChar(c) \in S \/ UpperChar(c) \in S)

\* a literal at position i, under re.IGNORECASE when ic
LitMatch(s, text, i, ic) ==
    /\ i + Len(s) <= Len(text) + 1
    /\ \A k \in 1..Len(s) :
           \/ text[i + k - 1] = s[k]
           \/ ic /\ LowerChar(text[i + k - 1]) = LowerChar(s[k])

\* \b at position i: exactly one of text[i-1], text[i] is a word character
AtWordBoundary(text, i) ==
    LET before == i > 1 /\ text[i - 1] \in WordChars
        after == i <= Len(text) /\ text[i] \in WordChars
    IN  before # after

\* the group of way w, unless w has none: then the group of the way before it
KeepGroup(w, prev) == IF w[2] = 0 THEN <<w[1], prev[2], prev[3]>> ELSE w

RECURSIVE Match(_, _, _, _)
RECURSIVE MatchCat(_, _, _, _, _)
RECURSIVE ThenCat(_, _, _, _, _, _)
RECURSIVE MatchAlt(_, _, _, _, _)
RECURSIVE MatchRep(_, _, _, _, _)
RECURSIVE ThenRep(_, _, _, _, _, _)

\* the ways node matches text at position i
Match(node, text, i, ic) ==
    CASE node.op = "chr" ->
             IF i <= Len(text) /\ ChrMatch(node.set, text[i], ic)
             THEN << <<i + 1, 0, 0>> >> ELSE << >>
      [] node.op = "lit" ->
             IF LitMatch(node.str, text, i, ic)
             THEN << <<i + Len(node.str), 0, 0>> >> ELSE << >>
      [] node.op = "wb" ->
             IF AtWordBoundary(text, i) THEN << <<i, 0, 0>> >> ELSE << >>
      [] node.op = "cat" -> MatchCat(node.xs, 1, text, i, ic)
      [] node.op = "alt" -> MatchAlt(node.xs, 1, text, i, ic)
      [] node.op = "rep" -> MatchRep(node.x, node.min, text, i, ic)
      [] node.op = "opt" -> Match(node.x, text, i, ic) \o << <<i, 0, 0>> >>
      [] node.op = "grp" ->
             LET ws == Match(node.x, text, i, ic)
             IN  [k \in 1..Len(ws) |-> <<ws[k][1], i, ws[k][1]>>]

\* xs[k], xs[k+1], ... in a row from position i
MatchCat(xs, k, text, i, ic) ==
    IF k > Len(xs) THEN << <<i, 0, 0>> >>
    ELSE ThenCat(Match(xs[k], text, i, ic), 1, xs, k + 1, text, ic)

\* for the ways ws[r], ws[r+1], ... of one element: the rest of the row
ThenCat(ws, r, xs, k, text, ic) ==
    IF r > Len(ws) THEN << >>
    ELSE LET rest == MatchCat(xs, k, text, ws[r][1], ic)
         IN  [n \in 1..Len(rest) |-> KeepGroup(rest[n], ws[r])]
             \o ThenCat(ws, r + 1, xs, k, text, ic)

\* the alternatives xs[k], xs[k+1], ... in their order
MatchAlt(xs, k, text, i, ic) ==
    IF k > Len(xs) THEN << >>
    ELSE Match(xs[k], text, i, ic) \o MatchAlt(xs, k + 1, text, i, ic)

\* x at least min times, as many times as possible first
MatchRep(x, min, text, i, ic) ==
    ThenRep(Match(x, text, i, ic), 1, x, min, text, ic)
    \o (IF min = 0 THEN << <<i, 0, 0>> >> ELSE << >>)

\* for the ways ws[r], ws[r+1], ... of one repetition: the further ones
ThenRep(ws, r, x, min, text, ic) ==
    IF r > Len(ws) THEN << >>
    ELSE LET left == IF min > 0 THEN min - 1 ELSE 0
             rest == MatchRep(x, left, text, ws[r][1], ic)
         IN  [n \in 1..Len(rest) |-> KeepGroup(rest[n], ws[r])]
             \o ThenRep(ws, r + 1, x, min, text, ic)

RECURSIVE finditer_from(_, _, _, _)
\* re.finditer: the leftmost match from position i on, then the matches after
\* its end (every pattern below consumes at least one character); a match
\* is <<start, end, gs, ge>>
finditer_from(pattern, text, ic, i) ==
    IF i > Len(text) + 1 THEN << >>
    ELSE LET ws == Match(pattern, text, i, ic)
         IN  IF ws = << >> THEN finditer_from(pattern, text, ic, i + 1)
             ELSE << <<i>> \o ws[1] >>
                  \o finditer_from(pattern, text, ic, ws[1][1])

\* re.finditer(pattern, text, flags)
finditer(pattern, text, ic) == finditer_from(pattern, text, ic, 1)

\* match.group(1) and match.group(0) of a match <<start, end, gs, ge>>
group1(text, m) == Slice(text, m[3], m[4])
group0(text, m) == Slice(text, m[1], m[2])

----------------------------------------------------------------------------
(* extract_potential_names                                                 *)

AZ == Chr(UpperSet)      \* [A-Z]
az == Chr(LowerSet)      \* [a-z]
ws1 == Rep(Chr(WhiteSpace), 1)    \* \s+
ws0 == Rep(Chr(WhiteSpace), 0)    \* \s*
Name == Grp(Cat(<<AZ, Rep(az, 1)>>))    \* ([A-Z][a-z]+)

\* (?:server|waiter|waitress|bartender|host|hostess)
RoleWords ==
    Alt(<<Lit(<<"s","e","r","v","e","r">>),
          Lit(<<"w","a","i","t","e","r">>),
          Lit(<<"w","a","i","t","r","e","s","s">>),
          Lit(<<"b","a","r","t","e","n","d","e","r">>),
          Lit(<<"h","o","s","t">>),
          Lit(<<"h","o","s","t","e","s","s">>)>>)

\* the eight patterns of extract_potential_names, in their order
patterns == <<
    \* \b([A-Z][a-z]+)\s+(?:was|is|had|did|helped|served|took)\b
    Cat(<<WB, Name, ws1,
          Alt(<<Lit(<<"w","a","s">>),
              Lit(<<"i","s">>),
              Lit(<<"h","a","d">>),
              Lit(<<"d","i","d">>),
              Lit(<<"h","e","l","p","e","d">>),
              Lit(<<"s","e","r","v","e","d">>),
              Lit(<<"t","o","o","k">>)>>),
          WB>>),
    \* (?:server|waiter|waitress|bartender|host|hostess)\s+([A-Z][a-z]+)
    Cat(<<RoleWords, ws1, Name>>),
    \* (?:our|my)?\s*(?:server|...|hostess)[,\s]+([A-Z][a-z]+)
    Cat(<<Opt(Alt(<<Lit(<<"o","u","r">>), Lit(<<"m","y">>)>>)),
          ws0, RoleWords, Rep(Chr({","} \cup WhiteSpace), 1), Name>>),
    \* \b([A-Z][a-z]+)(?:\s+[A-Z][a-z]*)?[,\s]+(?:our|my|the)?\s*(?:server|...|hostess)
    Cat(<<WB, Name, Opt(Cat(<<ws1, AZ, Rep(az, 0)>>)),
          Rep(Chr({","} \cup WhiteSpace), 1),
          Opt(Alt(<<Lit(<<"o","u","r">>), Lit(<<"m","y">>), Lit(<<"t","h","e">>)>>)),
          ws0, RoleWords>>),
    \* (?:Thanks?|Thank\s+you),?\s+([A-Z][a-z]+)[!\.\s]
    Cat(<<Alt(<<Cat(<<Lit(<<"T","h","a","n","k">>), Opt(Lit(<<"s">>))>>),
                Cat(<<Lit(<<"T","h","a","n","k">>), ws1, Lit(<<"y","o","u">>)>>)>>),
          Opt(Lit(<<",">>)), ws1, Name, Chr({"!", "."} \cup WhiteSpace)>>),
    \* \b([A-Z][a-z]+)\s+(?:provided|delivered|gave|recommended|suggested)
    Cat(<<WB, Name, ws1,
          Alt(<<Lit(<<"p","r","o","v","i","d","e","d">>),
              Lit(<<"d","e","l","i","v","e","r","e","d">>),
              Lit(<<"g","a","v","e">>),
              Lit(<<"r","e","c","o","m","m","e","n","d","e","d">>),
              Lit(<<"s","u","g","g","e","s","t","e","d">>)>>)>>),
    \* (?:served\s+by|helped\s+by)\s+([A-Z][a-z]+)
    Cat(<<Alt(<<Cat(<<Lit(<<"s","e","r","v","e","d">>), ws1, Lit(<<"b","y">>)>>),
                Cat(<<Lit(<<"h","e","l","p","e","d">>), ws1, Lit(<<"b","y">>)>>)>>),
          ws1, Name>>),
    \* \b([A-Z][a-z]+)\s+(?:at\s+the\s+)?(?:bar|front|host)
    Cat(<<WB, Name, ws1,
          Opt(Cat(<<Lit(<<"a","t">>), ws1, Lit(<<"t","h","e">>), ws1>>)),
          Alt(<<Lit(<<"b","a","r">>),
              Lit(<<"f","r","o","n","t">>),
              Lit(<<"h","o","s","t">>)>>)>>)
    >>

\* \b[A-Z][a-z]{2,}\b
CapitalizedWord == Cat(<<WB, AZ, Rep(az, 2), WB>>)

\* the list of the capitalized-word scan: 'The', 'This', ..., 'Incredible'
CommonWords == {
    <<"T","h","e">>,
    <<"T","h","i","s">>,
    <<"T","h","a","t">>,
    <<"T","h","e","y">>,
    <<"T","h","e","r","e">>,
    <<"W","h","e","n">>,
    <<"W","h","e","r","e">>,
    <<"W","h","a","t">>,
    <<"W","h","o">>,
    <<"W","h","y">>,
    <<"H","o","w">>,
    <<"A","n","d">>,
    <<"B","u","t">>,
    <<"O","r">>,
    <<"S","o">>,
    <<"V","e","r","y">>,
    <<"R","e","a","l","l","y">>,
    <<"G","r","e","a","t">>,
    <<"G","o","o","d">>,
    <<"B","a","d">>,
    <<"N","i","c","e">>,
    <<"F","o","o","d">>,
    <<"S","e","r","v","i","c","e">>,
    <<"R","e","s","t","a","u","r","a","n","t">>,
    <<"P","l","a","c","e">>,
    <<"T","i","m","e">>,
    <<"F","i","r","s","t">>,
    <<"L","a","s","t">>,
    <<"N","e","x","t">>,
    <<"B","e","s","t">>,
    <<"W","o","r","s","t">>,
    <<"P","e","r","f","e","c","t">>,
    <<"A","m","a","z","i","n","g">>,
    <<"A","w","e","s","o","m","e">>,
    <<"T","e","r","r","i","b","l","e">>,
    <<"H","o","r","r","i","b","l","e">>,
    <<"E","x","c","e","l","l","e","n","t">>,
    <<"O","u","t","s","t","a","n","d","i","n","g">>,
    <<"W","o","n","d","e","r","f","u","l">>,
    <<"F","a","n","t","a","s","t","i","c">>,
    <<"I","n","c","r","e","d","i","b","l","e">>}

\* the list match_employee_to_review skips: 'and', 'the', ..., 'clearly'
NotNames == {
    <<"a","n","d">>,
    <<"t","h","e">>,
    <<"w","a","s">>,
    <<"h","a","d">>,
    <<"o","u","r">>,
    <<"v","e","r","y">>,
    <<"g","r","e","a","t">>,
    <<"g","o","o","d">>,
    <<"f","o","o","d">>,
    <<"s","e","r","v","i","c","e">>,
    <<"p","l","a","c","e">>,
    <<"t","i","m","e">>,
    <<"f","i","r","s","t">>,
    <<"l","a","s","t">>,
    <<"n","e","x","t">>,
    <<"b","e","s","t">>,
    <<"n","i","c","e">>,
    <<"s","a","i","d">>,
    <<"j","u","s","t">>,
    <<"t","h","a","t">>,
    <<"t","h","i","s">>,
    <<"t","h","e","y">>,
    <<"w","i","t","h">>,
    <<"w","e","r","e">>,
    <<"h","a","v","e">>,
    <<"b","e","e","n">>,
    <<"w","i","l","l">>,
    <<"w","o","u","l","d">>,
    <<"c","o","u","l","d">>,
    <<"s","h","o","u","l","d">>,
    <<"m","a","d","e">>,
    <<"c","a","m","e">>,
    <<"w","e","n","t">>,
    <<"g","o","t">>,
    <<"g","e","t">>,
    <<"o","n","e">>,
    <<"t","w","o">>,
    <<"a","l","l">>,
    <<"b","u","t">>,
    <<"n","o","t">>,
    <<"c","a","n">>,
    <<"d","i","d">>,
    <<"h","a","s">>,
    <<"a","r","e">>,
    <<"f","o","r">>,
    <<"y","o","u">>,
    <<"y","o","u","r">>,
    <<"h","i","s">>,
    <<"h","e","r">>,
    <<"h","i","m">>,
    <<"s","h","e">>,
    <<"h","e">>,
    <<"w","e">>,
    <<"u","s">>,
    <<"m","e">>,
    <<"m","y">>,
    <<"s","o">>,
    <<"i","f">>,
    <<"o","r">>,
    <<"a","n">>,
    <<"a","s">>,
    <<"a","t">>,
    <<"b","e">>,
    <<"b","y">>,
    <<"d","o">>,
    <<"i","n">>,
    <<"i","s">>,
    <<"i","t">>,
    <<"n","o">>,
    <<"o","f">>,
    <<"o","n">>,
    <<"t","o">>,
    <<"u","p">>,
    <<"c","l","e","a","r","l","y">>}

----------------------------------------------------------------------------
(* extract_potential_names(text)                                           *)

\* not text
Falsy(v) == v.type = "NoneType" \/ (v.type = "str" /\ v.val = << >>)
\* pd.isna(text)
isna(v) == v.type = "NoneType" \/ v.type = "float"

\* what a call does: it returns one of `out`, or it raises
Returns(S) == [raises |-> FALSE, out |-> S]
Raises == [raises |-> TRUE, out |-> {}]

RECURSIVE PatternNames_any_length(_, _, _)
\* lines 115-118 without the test of line 117
PatternNames_any_length(text, ms, k) ==
    IF k > Len(ms) THEN << >>
    ELSE <<strip(group1(text, ms[k]))>> \o PatternNames_any_length(text, ms, k + 1)

RECURSIVE PatternNames(_, _, _)
\* lines 115-118 for the matches ms[k], ms[k+1], ... of one pattern
PatternNames(text, ms, k) ==
    IF k > Len(ms) THEN << >>
    ELSE LET name == strip(group1(text, ms[k]))
         IN  (IF Len(name) >= 3 THEN <<name>> ELSE << >>)
             \o PatternNames(text, ms, k + 1)

RECURSIVE AllPatternNames(_, _)
\* lines 113-118 for patterns[p], patterns[p+1], ...
AllPatternNames(text, p) ==
    IF p > Len(patterns) THEN << >>
    ELSE PatternNames(text, finditer(patterns[p], text, TRUE), 1)
         \o AllPatternNames(text, p + 1)

\* line 124: word.lower() not in ['The', 'This', ...] is False
SkipsCommonWord(word) == lower(word) \in CommonWords

RECURSIVE WordNames(_, _, _)
\* lines 122-125 for the words ms[k], ms[k+1], ...
WordNames(text, ms, k) ==
    IF k > Len(ms) THEN << >>
    ELSE LET word == group0(text, ms[k])
         IN  (IF ~SkipsCommonWord(word) THEN <<word>> ELSE << >>)
             \o WordNames(text, ms, k + 1)

\* potential_names as line 127 finds it: the captures in discovery order
discovered_names(s) ==
    AllPatternNames(s, 1) \o WordNames(s, finditer(CapitalizedWord, s, FALSE), 1)

\* line 127 as "return potential_names": duplicates kept, discovery order
list_keeping_duplicates(xs) == {xs}

\* list(set(xs)): the distinct elements of xs, in any order (the iteration
\* order of a set of str depends on the process's hash seed)
list_of_set(xs) ==
    LET S == SeqRange(xs)
    IN  {l \in [1..Cardinality(S) -> S] : SeqRange(l) = S}

\* extract_potential_names with line 97 as "if not text:"
extract_potential_names_without_isna(text) ==
    IF Falsy(text) THEN Returns({<< >>})
    ELSE IF text.type # "str" THEN Raises    \* re.finditer: TypeError
    ELSE Returns(list_of_set(discovered_names(text.val)))

\* extract_potential_names(text)
extract_potential_names(text) ==
    IF Falsy(text) \/ isna(text) THEN Returns({<< >>})
    ELSE IF text.type # "str" THEN Raises    \* re.finditer: TypeError
    ELSE Returns(list_of_set(discovered_names(text.val)))

----------------------------------------------------------------------------
(* Program constants and values                                            *)

\* min_similarity=0.8, in hundredths
DefaultMinSimilarity == 80

\* pd.DateOffset(months=6), in months
SixMonths == 6

\* a published_datetime: a timestamp in months, or NaT
Ts(n) == [nat |-> FALSE, t |-> n]
NaT == [nat |-> TRUE, t |-> 0]

\* a cell of a column the dataframe does not have
Missing == [type |-> "missing", val |-> << >>]

----------------------------------------------------------------------------
(* The inputs                                                              *)

MaxWords == 2     \* words in a generated comment
MaxRoster == 2    \* entries in the roster
MaxRows == 2      \* review rows in the dataframe
MaxSimLen == 3    \* characters in an argument of similarity_score

Grackle == "Grackle"
Margies == "Margie's Kitchen & Cocktails"
Restaurants == {Grackle, Margies}

\* the words of the generated comments
Words == {<<"J","a","c","o","b">>,
          <<"W","i","l","l">>,
          <<"R","e","a","l","l","y">>,
          <<"w","a","s">>}

RECURSIVE Sentence(_, _)
\* the words ws[n], ws[n+1], ... with one space between them
Sentence(ws, n) ==
    IF n > Len(ws) THEN << >>
    ELSE IF n = Len(ws) THEN ws[n]
    ELSE ws[n] \o <<" ">> \o Sentence(ws, n + 1)

Phrases == {
    <<"T","h","e"," ","f","o","o","d"," ","a","n","d"," ","s","e","r","v","i","c","e"," ","w","e","r","e"," ","g","r","e","a","t">>,
    <<"J","a","c","o","b"," ","w","a","s"," ","e","x","c","e","l","l","e","n","t"," ","t","o","n","i","g","h","t","!">>,
    <<"T","h","a","n","k","s"," ","A","l","!"," ","J","o"," ","w","a","s"," ","k","i","n","d">>,
    <<"o","u","r"," ","s","e","r","v","e","r",","," ","J","a","c","o","b">>,
    <<"J","a","c","o","b",","," ","o","u","r"," ","s","e","r","v","e","r">>,
    <<"s","e","r","v","e","d"," ","b","y"," ","j","a","c","o","b">>,
    <<"J","a","c","o","b"," ","a","t"," ","t","h","e"," ","b","a","r">>,
    <<"s","h","e"," ","r","e","c","o","m","m","e","n","d","e","d"," ","i","t">>}

\* the comments: '', None, NaN, a number, the phrases, and up to MaxWords
\* words
Comments ==
    {Str(<< >>), None, NaN, Five}
    \cup {Str(s) : s \in Phrases}
    \cup {Str(Sentence(ws, 1)) : ws \in UNION {[1..n -> Words] : n \in 1..MaxWords}}

\* roster entries as load_employee_list builds them; the key of an entry
\* is first_name.lower()
EmployeePool == {
    [first_name |-> <<"J","a","c","o","b">>,
     full_name |-> <<"J","a","c","o","b"," ","S","m","i","t","h">>,
     restaurants |-> <<Grackle>>],
    [first_name |-> <<"J","a","k","o","b">>,
     full_name |-> <<"J","a","k","o","b"," ","B","e","r","g">>,
     restaurants |-> <<Margies>>],
    [first_name |-> <<"W","i","l","l">>,
     full_name |-> <<"W","i","l","l"," ","H","u","n","t">>,
     restaurants |-> <<Grackle, Margies>>],
    [first_name |-> <<"R","e","i","l","l","y">>,
     full_name |-> <<"R","e","i","l","l","y"," ","J","o","n","e","s">>,
     restaurants |-> <<Grackle>>],
    [first_name |-> <<"J","o","y">>,
     full_name |-> <<"J","o","y"," ","L","e","e",";"," ","J","r">>,
     restaurants |-> <<Grackle>>],
    [first_name |-> <<"T","h","e","o">>,
     full_name |-> <<"T","h","e","o"," ","D","i","a","z">>,
     restaurants |-> <<Margies>>],
    [first_name |-> <<"J","a","c","u","b">>,
     full_name |-> <<"J","a","c","u","b"," ","P","i","k","e">>,
     restaurants |-> <<Margies>>]}

Key(employee_info) == lower(employee_info.first_name)

\* the dicts of up to MaxRoster entries, in insertion order, one per key
Rosters ==
    {r \in UNION {[1..n -> EmployeePool] : n \in 0..MaxRoster} :
        \A i, j \in 1..Len(r) : i # j => Key(r[i]) # Key(r[j])}

MinSimilarities == {0, DefaultMinSimilarity, 100}

\* a review row before the pass
Review(restaurant, comment, published) ==
    [restaurant |-> restaurant, comment |-> comment,
     published_datetime |-> published,
     mentioned_employees |-> Missing, employee_matches |-> Missing,
     employee_confidence |-> Missing]

Now == SixMonths + 1

\* the review rows: published before the cutoff (0), at it (1), after it (2)
\* or with an unparseable date
ReviewPool == {
    Review(Grackle, Str(<<"J","a","c","o","b"," ","w","a","s">>), Ts(2)),
    Review(Margies, Str(<<"J","a","c","o","b"," ","w","a","s">>), Ts(2)),
    Review(Grackle, Str(<<"J","a","c","o","b"," ","w","a","s">>), Ts(0)),
    Review(Grackle, Str(<<"J","a","c","o","b"," ","w","a","s">>), NaT),
    Review(Grackle, Str(<<"J","o","y"," ","J","a","c","o","b">>), Ts(1)),
    Review(Grackle, Str(<<"W","i","l","l"," ","R","e","a","l","l","y">>), Ts(2)),
    Review(Grackle, NaN, Ts(2)),
    Review(Grackle, Five, Ts(2)),
    Review(Grackle, Str(<<"J","a","c","o","b"," ","w","a","s"," ","e","x","c","e","l","l","e","n","t"," ","t","o","n","i","g","h","t","!">>), Ts(2)),
    Review(Margies, Str(<<"T","h","e"," ","f","o","o","d"," ","a","n","d"," ","s","e","r","v","i","c","e"," ","w","e","r","e"," ","g","r","e","a","t">>), Ts(1))}

\* the dataframes of up to MaxRows rows
Batches == UNION {[1..n -> ReviewPool] : n \in 0..MaxRows}

\* the arguments of similarity_score
SimAlphabet == {"a", "b", "c", "A"}
SimStrings == UNION {[1..n -> SimAlphabet] : n \in 0..MaxSimLen}

----------------------------------------------------------------------------
(* The calls of extract_potential_names, tabulated over the comments of    *)
(* the inputs: TLC evaluates each once                                     *)

AllComments == Comments \cup {r.comment : r \in ReviewPool}

ExtractedNames == [text \in AllComments |-> extract_potential_names(text)]

(* The calls of similarity_score(potential_name, first_name), tabulated    *)
(* over the names extracted from the comments and the first names of the   *)
(* roster entries                                                          *)

AllNames ==
    UNION {SeqRange(l) : l \in UNION {ExtractedNames[t].out : t \in AllComments}}

SimilarityScores ==
    [n \in AllNames, f \in {e.first_name : e \in EmployeePool} |->
        similarity_score(n, f)]

----------------------------------------------------------------------------
(* match_employee_to_review(review_text, restaurant_name, employee_dict,   *)
(*                          min_similarity)                                *)

\* the state of the loop of lines 144-156: best_match, best_score,
\* best_employee_info
NoBest == [best_match |-> None, best_score |-> ScoreZero]

\* line 153 without "and score >= min_similarity"
Improves_no_threshold(s, best_score, min_sim) == ScoreGT(s, best_score)

\* line 153 with "score > min_similarity"
Improves_above_threshold(s, best_score, min_sim) ==
    ScoreGT(s, best_score) /\ ScoreGE(s, min_sim) /\ s[1] * 100 # min_sim * s[2]

\* line 153 with "score >= best_score": a later entry wins a tie
Improves_on_ties(s, best_score, min_sim) ==
    ScoreGE(s, min_sim) /\ ~ScoreGT(best_score, s)

\* line 153
Improves(s, best_score, min_sim) ==
    ScoreGT(s, best_score) /\ ScoreGE(s, min_sim)

\* line 146 without the test: every employee works everywhere
WorksAt_anywhere(employee_info, restaurant) == TRUE

\* line 146: restaurant_name in employee_info['restaurants']
WorksAt(employee_info, restaurant) ==
    restaurant \in SeqRange(employee_info.restaurants)

RECURSIVE BestMatch(_, _, _, _, _, _)
\* lines 144-156 from the n-th entry of employee_dict on
BestMatch(potential_name, restaurant, dict, min_sim, n, best) ==
    IF n > Len(dict) THEN best
    ELSE LET employee_info == dict[n]
             \* similarity_score(potential_name, first_name)
             s == SimilarityScores[potential_name, employee_info.first_name]
         IN  IF ~WorksAt(employee_info, restaurant)
             THEN BestMatch(potential_name, restaurant, dict, min_sim, n + 1, best)
             ELSE IF Improves(s, best.best_score, min_sim)
             THEN BestMatch(potential_name, restaurant, dict, min_sim, n + 1,
                            [best_match |-> Str(employee_info.full_name),
                             best_score |-> s])
             ELSE BestMatch(potential_name, restaurant, dict, min_sim, n + 1, best)

\* line 136 with an empty list: no potential name is skipped
IsNotName_never(potential_name) == FALSE

\* line 136
IsNotName(potential_name) == lower(potential_name) \in NotNames

RECURSIVE MatchNames(_, _, _, _, _)
\* lines 134-163 from the n-th potential name on
MatchNames(names, restaurant, dict, min_sim, n) ==
    IF n > Len(names) THEN << >>
    ELSE LET best == BestMatch(names[n], restaurant, dict, min_sim, 1, NoBest)
         IN  (IF IsNotName(names[n]) THEN << >>
              ELSE IF ~Falsy(best.best_match)
              THEN << [potential_name |-> names[n],
                       matched_employee |-> best.best_match.val,
                       confidence |-> best.best_score] >>
              ELSE << >>)
             \o MatchNames(names, restaurant, dict, min_sim, n + 1)

\* match_employee_to_review: it raises, or it returns one of the lists `out`,
\* each with the potential_names it came from
match_employee_to_review(text, restaurant, dict, min_sim) ==
    LET e == ExtractedNames[text]    \* extract_potential_names(review_text)
    IN  IF e.raises THEN Raises
        ELSE Returns({[potential_names |-> names,
                       matches |-> MatchNames(names, restaurant, dict, min_sim, 1)] :
                      names \in e.out})

----------------------------------------------------------------------------
(* add_employee_matches_to_dataframe(df, employee_dict)                    *)

\* line 175 without the cutoff: every dated row is recent
IsRecent_any_date(published, six_months_ago) == ~published.nat

\* line 175 for one row: published_datetime >= six_months_ago (False for NaT)
IsRecent(published, six_months_ago) ==
    ~published.nat /\ published.t >= six_months_ago

\* f"{x:.2f}" of a score n/d (round-half-even where the float is exact)
Format2f(s) ==
    LET q == (100 * s[1]) \div s[2]
        r == (100 * s[1]) % s[2]
        h == IF 2 * r > s[2] THEN q + 1
             ELSE IF 2 * r = s[2] THEN q + (q % 2)
             ELSE q
    IN  <<Digits[(h \div 100) + 1], ".", Digits[((h \div 10) % 10) + 1],
          Digits[(h % 10) + 1]>>

RECURSIVE Join(_, _)
\* '; '.join(xs) from the k-th element on
Join(xs, k) ==
    IF k > Len(xs) THEN << >>
    ELSE IF k = Len(xs) THEN xs[k]
    ELSE xs[k] \o <<";", " ">> \o Join(xs, k + 1)

\* lines 204-206 as writes that also clear the comment of the row
Annotated_clearing_comment(row, ms) ==
    [row EXCEPT
        !.comment = Str(<< >>),
        !.mentioned_employees =
            Str(Join([i \in 1..Len(ms) |-> ms[i].potential_name], 1)),
        !.employee_matches =
            Str(Join([i \in 1..Len(ms) |-> ms[i].matched_employee], 1)),
        !.employee_confidence =
            Str(Join([i \in 1..Len(ms) |-> Format2f(ms[i].confidence)], 1))]

\* lines 200-206: the three cells written for a non-empty comment_matches
Annotated(row, ms) ==
    [row EXCEPT
        !.mentioned_employees =
            Str(Join([i \in 1..Len(ms) |-> ms[i].potential_name], 1)),
        !.employee_matches =
            Str(Join([i \in 1..Len(ms) |-> ms[i].matched_employee], 1)),
        !.employee_confidence =
            Str(Join([i \in 1..Len(ms) |-> Format2f(ms[i].confidence)], 1))]

\* lines 183-185
WithBlankColumns(row) ==
    [row EXCEPT !.mentioned_employees = Str(<< >>),
                !.employee_matches = Str(<< >>),
                !.employee_confidence = Str(<< >>)]

\* line 175 as a scan that stops at the first row that is not recent
RecentMask_until_first_old(frame, six_months_ago) ==
    {i \in 1..Len(frame) :
        \A j \in 1..i : IsRecent(frame[j].published_datetime, six_months_ago)}

\* line 175: the positions of the rows of recent_df
RecentMask(frame, six_months_ago) ==
    {i \in 1..Len(frame) : IsRecent(frame[i].published_datetime, six_months_ago)}

----------------------------------------------------------------------------
(* The annotation pass: add_employee_matches_to_dataframe, one step per    *)
(* iteration of the loop of line 190                                       *)

RECURSIVE Sorted(_)
\* the elements of a set of numbers in ascending order
Sorted(S) ==
    IF S = {} THEN << >>
    ELSE LET m == CHOOSE x \in S : \A y \in S : x <= y
         IN  <<m>> \o Sorted(S \ {m})

Idle ==
    /\ a = << >> /\ b = << >> /\ score = ScoreZero
    /\ review_text = None /\ restaurant_name = Grackle
    /\ min_similarity = DefaultMinSimilarity
    /\ potential_names = << >> /\ matches = << >>

Init ==
    /\ SyncIdle
    /\ pc = "start"
    /\ employee_dict \in Rosters
    /\ df \in Batches
    \* pd.to_datetime gives a timezone-aware column only out of parsed dates
    /\ tz_aware \in {t \in BOOLEAN :
                       t => \E i \in 1..Len(df) : ~df[i].published_datetime.nat}
    /\ now = Now
    /\ recent = << >> /\ pos = 0
    /\ Idle

\* lines 169-185
Start ==
    /\ pc = "start"
    /\ IF employee_dict = << >>
       THEN \* lines 169-171: return df
            /\ pc' = "done"
            /\ UNCHANGED <<df, recent, pos>>
       ELSE IF ~tz_aware
       THEN \* line 175: .dt.tz_convert(None) raises TypeError
            /\ pc' = "raised"
            /\ UNCHANGED <<df, recent, pos>>
       ELSE /\ recent' = Sorted(RecentMask(df, now - SixMonths))
            /\ df' = [i \in 1..Len(df) |-> WithBlankColumns(df[i])]
            /\ pos' = 1
            /\ pc' = "loop"
    /\ UNCHANGED syncVars
    /\ UNCHANGED <<a, b, score, review_text, restaurant_name, min_similarity,
                   employee_dict, potential_names, matches, tz_aware, now>>

\* lines 190-206 for one row of recent_df
Iterate ==
    /\ pc = "loop"
    /\ pos <= Len(recent)
    /\ LET idx == recent[pos]
           row == df[idx]
           r == match_employee_to_review(row.comment, row.restaurant,
                                         employee_dict, DefaultMinSimilarity)
       IN  /\ review_text' = row.comment
           /\ restaurant_name' = row.restaurant
           /\ min_similarity' = DefaultMinSimilarity
           /\ IF r.raises
              THEN /\ pc' = "raised"
                   /\ UNCHANGED <<potential_names, matches, df, pos>>
              ELSE \E o \in r.out :
                   /\ potential_names' = o.potential_names
                   /\ matches' = o.matches
                   /\ df' = IF o.matches # << >>
                            THEN [df EXCEPT ![idx] = Annotated(row, o.matches)]
                            ELSE df
                   /\ pos' = pos + 1
                   /\ pc' = "loop"
    /\ UNCHANGED syncVars
    /\ UNCHANGED <<a, b, score, employee_dict, tz_aware, now, recent>>

\* line 210
Return ==
    /\ pc = "loop"
    /\ pos > Len(recent)
    /\ pc' = "done"
    /\ UNCHANGED syncVars
    /\ UNCHANGED <<a, b, score, review_text, restaurant_name, min_similarity,
                   employee_dict, potential_names, matches, df, tz_aware, now,
                   recent, pos>>

Next == Start \/ Iterate \/ Return

Spec == Init /\ [][Next]_vars

----------------------------------------------------------------------------
(* One call of match_employee_to_review                                    *)

InitMatch ==
    /\ SyncIdle
    /\ pc = "match"
    /\ review_text \in Comments
    /\ restaurant_name \in Restaurants
    /\ employee_dict \in Rosters
    /\ min_similarity \in MinSimilarities
    /\ potential_names = << >> /\ matches = << >>
    /\ a = << >> /\ b = << >> /\ score = ScoreZero
    /\ df = << >> /\ tz_aware = FALSE /\ now = Now
    /\ recent = << >> /\ pos = 0

CallMatch ==
    /\ pc = "match"
    /\ LET r == match_employee_to_review(review_text, restaurant_name,
                                         employee_dict, min_similarity)
       IN  IF r.raises
           THEN /\ pc' = "match_raised"
                /\ UNCHANGED <<potential_names, matches>>
           ELSE \E o \in r.out :
                /\ potential_names' = o.potential_names
                /\ matches' = o.matches
                /\ pc' = "match_done"
    /\ UNCHANGED syncVars
    /\ UNCHANGED <<a, b, score, review_text, restaurant_name, min_similarity,
                   employee_dict, df, tz_aware, now, recent, pos>>

NextMatch == CallMatch

SpecMatch == InitMatch /\ [][NextMatch]_vars

----------------------------------------------------------------------------
(* One call of similarity_score                                            *)

InitSim ==
    /\ SyncIdle
    /\ pc = "sim"
    /\ a \in SimStrings
    /\ b \in SimStrings
    /\ score = ScoreZero
    /\ review_text = None /\ restaurant_name = Grackle
    /\ min_similarity = DefaultMinSimilarity
    /\ employee_dict = << >>
    /\ potential_names = << >> /\ matches = << >>
    /\ df = << >> /\ tz_aware = FALSE /\ now = Now
    /\ recent = << >> /\ pos = 0

CallSim ==
    /\ pc = "sim"
    /\ score' = similarity_score(a, b)
    /\ pc' = "sim_done"
    /\ UNCHANGED syncVars
    /\ UNCHANGED <<a, b, review_text, restaurant_name, min_similarity,
                   employee_dict, potential_names, matches, df, tz_aware, now,
                   recent, pos>>

NextSim == CallSim

SpecSim == InitSim /\ [][NextSim]_vars

----------------------------------------------------------------------------
(* Properties of match_employee_to_review (SpecMatch)                      *)

One == <<1, 1>>
Entries == SeqRange(employee_dict)
Emitted == SeqRange(matches)
Returned == pc = "match_done"
EqualIgnoringCase(s, t) == lower(s) = lower(t)

\* C1: every emitted match names a roster entry assigned to the queried
\* restaurant, with the score of that entry, and no entry that is not
\* assigned to the restaurant is emitted
C1_OnlyAssignedEntriesMatch ==
    Returned =>
        \A m \in Emitted :
            /\ \E e \in Entries :
                   /\ e.full_name = m.matched_employee
                   /\ restaurant_name \in SeqRange(e.restaurants)
                   /\ ScoreEQ(similarity_score(m.potential_name, e.first_name),
                              m.confidence)
            /\ \A e \in Entries :
                   restaurant_name \notin SeqRange(e.restaurants)
                       => e.full_name # m.matched_employee

\* a match was emitted although an entry of another restaurant scores higher
C1_Witness ==
    /\ Returned
    /\ \E m \in Emitted : \E e \in Entries :
           /\ restaurant_name \notin SeqRange(e.restaurants)
           /\ ScoreEQ(similarity_score(m.potential_name, e.first_name), One)
           /\ ScoreGT(One, m.confidence)

\* C2: the confidence of every emitted match is at least min_similarity and
\* greater than 0
C2_ConfidenceAtLeastThreshold ==
    Returned =>
        \A m \in Emitted :
            /\ ScoreGE(m.confidence, min_similarity)
            /\ ScoreGT(m.confidence, ScoreZero)

\* a match was emitted with a confidence of exactly the default threshold
C2_Witness ==
    /\ Returned
    /\ min_similarity = DefaultMinSimilarity
    /\ \E m \in Emitted :
           m.confidence[1] * 100 = DefaultMinSimilarity * m.confidence[2]

\* C5: under the default threshold, no word of the extractor's list or of
\* the resolver's list, compared case-insensitively, is the candidate of an
\* emitted match
C5_NoStopWordMatched ==
    (Returned /\ min_similarity = DefaultMinSimilarity) =>
        \A m \in Emitted :
            /\ lower(m.potential_name) \notin {lower(w) : w \in CommonWords}
            /\ lower(m.potential_name) \notin NotNames

\* C6 as claimed: a candidate equal, ignoring case, to the first name of an
\* entry assigned to the restaurant scores 1.0 and is matched, for every
\* min_similarity <= 1.0
C6_ExactNameAlwaysMatched ==
    (Returned /\ min_similarity <= 100) =>
        \A n \in SeqRange(potential_names) : \A e \in Entries :
            (/\ restaurant_name \in SeqRange(e.restaurants)
             /\ EqualIgnoringCase(n, e.first_name))
            => /\ ScoreEQ(similarity_score(n, e.first_name), One)
               /\ \E m \in Emitted : m.potential_name = n /\ ScoreEQ(m.confidence, One)

\* C6 as amended: the same, for the candidates that are not on the
\* resolver's list of line 136
C6_ExactNameMatchedUnlessNotName ==
    (Returned /\ min_similarity <= 100) =>
        \A n \in SeqRange(potential_names) : \A e \in Entries :
            (/\ restaurant_name \in SeqRange(e.restaurants)
             /\ EqualIgnoringCase(n, e.first_name)
             /\ lower(n) \notin NotNames)
            => /\ ScoreEQ(similarity_score(n, e.first_name), One)
               /\ \E m \in Emitted : m.potential_name = n /\ ScoreEQ(m.confidence, One)

\* a candidate that differs from the first name in case only was matched
\* under min_similarity = 1.0
C6_Witness ==
    /\ Returned
    /\ min_similarity = 100
    /\ \E m \in Emitted : \E e \in Entries :
           /\ restaurant_name \in SeqRange(e.restaurants)
           /\ EqualIgnoringCase(m.potential_name, e.first_name)
           /\ m.potential_name # e.first_name
           /\ e.full_name = m.matched_employee

\* C8: every name extract_potential_names returned has at least 3
\* characters and occurs in the text, case unchanged
C8_NamesAreLongSubstrings ==
    (Returned /\ review_text.type = "str") =>
        \A n \in SeqRange(potential_names) :
            Len(n) >= 3 /\ Contains(review_text.val, n)

\* names were extracted from a text in which a pattern also captures the
\* two-letter words "Al" and "Jo"
C8_Witness ==
    /\ Returned
    /\ review_text.type = "str"
    /\ Contains(review_text.val, <<"J","o"," ","w","a","s">>)
    /\ potential_names # << >>

\* C9: for the text '', None or NaN the call does not raise and the list of
\* extracted names is empty
C9_BlankTextGivesNoNames ==
    (pc \in {"match_done", "match_raised"}
     /\ review_text \in {Str(<< >>), None, NaN})
        => pc = "match_done" /\ potential_names = << >>

\* the call returned for the text NaN
C9_Witness == Returned /\ review_text = NaN

TheFoodAndServiceWereGreat ==
    Str(<<"T","h","e"," ","f","o","o","d"," ","a","n","d"," ","s","e","r","v","i","c","e"," ","w","e","r","e"," ","g","r","e","a","t">>)

\* C10: a word of the list of line 124 is among the extracted names only if
\* one of the eight patterns captured it; "The food and service were great"
\* gives no names
C10_CommonWordsExcluded ==
    (Returned /\ review_text.type = "str") =>
        /\ \A n \in SeqRange(potential_names) :
               n \in CommonWords
                   => n \in SeqRange(AllPatternNames(review_text.val, 1))
        /\ review_text = TheFoodAndServiceWereGreat => potential_names = << >>

----------------------------------------------------------------------------
(* Properties of similarity_score (SpecSim)                                *)

----------------------------------------------------------------------------
(* Properties of add_employee_matches_to_dataframe (Spec)                  *)

RECURSIVE Split(_, _)
\* s.split('; ') from position i on
Split(s, i) ==
    LET hits == {j \in i..(Len(s) - 1) : s[j] = ";" /\ s[j + 1] = " "}
    IN  IF hits = {} THEN <<Slice(s, i, Len(s) + 1)>>
        ELSE LET j == CHOOSE x \in hits : \A y \in hits : x <= y
             IN  <<Slice(s, i, j)>> \o Split(s, j + 2)

Annotations(row) ==
    <<row.mentioned_employees, row.employee_matches, row.employee_confidence>>
Blank(row) == Annotations(row) = <<Str(<< >>), Str(<< >>), Str(<< >>)>>
Finished == pc = "done" /\ employee_dict # << >>

\* C3: after the pass the three fields of every row hold the same number of
\* '; '-separated entries, and entry i of each belongs to one match: name i
\* is the full name of a roster entry whose score against token i is
\* confidence i
C3_FieldsAligned ==
    Finished =>
        \A r \in 1..Len(df) :
            LET tokens == Split(df[r].mentioned_employees.val, 1)
                names == Split(df[r].employee_matches.val, 1)
                confs == Split(df[r].employee_confidence.val, 1)
            IN  /\ Len(tokens) = Len(names)
                /\ Len(names) = Len(confs)
                /\ ~Blank(df[r]) =>
                       \A i \in 1..Len(tokens) : \E e \in Entries :
                           /\ e.full_name = names[i]
                           /\ Format2f(similarity_score(tokens[i], e.first_name))
                                  = confs[i]

\* C4: with a non-empty roster, a row published before the cutoff ends the
\* pass with its three fields blank
C4_OldReviewsStayBlank ==
    Finished =>
        \A r \in 1..Len(df) :
            (/\ ~df[r].published_datetime.nat
             /\ df[r].published_datetime.t < now - SixMonths)
            => Blank(df[r])

\* the pass ended with a blank row published before the cutoff whose
\* comment holds the first name of an entry assigned to its restaurant
C4_Witness ==
    /\ Finished
    /\ \E r \in 1..Len(df) : \E e \in Entries :
           /\ ~df[r].published_datetime.nat
           /\ df[r].published_datetime.t < now - SixMonths
           /\ df[r].comment.type = "str"
           /\ Contains(df[r].comment.val, e.first_name)
           /\ df[r].restaurant \in SeqRange(e.restaurants)
           /\ Blank(df[r])

JacobWasExcellentTonight ==
    Str(<<"J","a","c","o","b"," ","w","a","s"," ","e","x","c","e","l","l","e","n","t"," ","t","o","n","i","g","h","t","!">>)

Recent(row) == IsRecent(row.published_datetime, now - SixMonths)

JacobSmith ==
    [first_name |-> <<"J","a","c","o","b">>,
     full_name |-> <<"J","a","c","o","b"," ","S","m","i","t","h">>,
     restaurants |-> <<Grackle>>]

\* the strings f"{x:.2f}" gives for the scores 0.80, 0.81, ..., 1.00
ConfidencesFrom80 == {Format2f(<<n, 100>>) : n \in DefaultMinSimilarity..100}

\* C12: the pass that ran with the roster holding only Jacob Smith of
\* Grackle leaves a recent Grackle row with the comment "Jacob was excellent
\* tonight!" with mentioned_employees "Jacob", employee_matches "Jacob
\* Smith" and one confidence of at least 0.80
C12_JacobIsAnnotated ==
    (Finished /\ employee_dict = <<JacobSmith>>) =>
        \A r \in 1..Len(df) :
            (/\ df[r].restaurant = Grackle
             /\ df[r].comment = JacobWasExcellentTonight
             /\ Recent(df[r]))
            => /\ df[r].mentioned_employees = Str(<<"J","a","c","o","b">>)
               /\ df[r].employee_matches = Str(JacobSmith.full_name)
               /\ df[r].employee_confidence.val \in ConfidencesFrom80

\* the pass ended on such a row with the confidence "1.00"
C12_Witness ==
    /\ Finished
    /\ employee_dict = <<JacobSmith>>
    /\ \E r \in 1..Len(df) :
           /\ df[r].restaurant = Grackle
           /\ df[r].comment = JacobWasExcellentTonight
           /\ Recent(df[r])
           /\ df[r].employee_confidence = Str(<<"1",".","0","0">>)

\* the row is recent and match_employee_to_review finds a match for it
HasMatch(row) ==
    /\ Recent(row)
    /\ LET r == match_employee_to_review(row.comment, row.restaurant,
                                          employee_dict, DefaultMinSimilarity)
       IN  ~r.raises /\ \E o \in r.out : o.matches # << >>

\* C15: whatever the roster, the empty one included, every row of the
\* returned dataframe has the three fields, each a string, and each the
\* empty string when the review has no match
C15_EveryRowCarriesTheFields ==
    pc = "done" =>
        \A r \in 1..Len(df) :
            /\ \A f \in SeqRange(Annotations(df[r])) : f.type = "str"
            /\ ~HasMatch(df[r]) => Blank(df[r])

\* no published_datetime of the batch could be parsed
NoDateParsed == \A r \in 1..Len(df) : df[r].published_datetime.nat

\* C16: with a roster, a row whose published_datetime is NaT never makes
\* the pass raise, is not among the rows matching runs on, and has its three
\* fields blank once the columns exist; so too in a batch where no
\* published_datetime could be parsed
C16_UnparsedDatesAreNotRecent ==
    (employee_dict # << >> /\ Len(df) > 0) =>
        /\ (tz_aware \/ NoDateParsed) => pc # "raised"
        /\ pc \in {"loop", "done"} =>
               \A r \in 1..Len(df) :
                   df[r].published_datetime.nat
                       => r \notin SeqRange(recent) /\ Blank(df[r])

\* the row has none of the three columns
Unannotated(row) == Annotations(row) = <<Missing, Missing, Missing>>

\* the three fields hold strings, none of them empty
Populated(row) ==
    \A f \in SeqRange(Annotations(row)) : f.type = "str" /\ f.val # << >>

\* the three fields hold the same number of '; '-separated entries
SameNumberOfEntries(row) ==
    /\ Len(Split(row.mentioned_employees.val, 1))
           = Len(Split(row.employee_matches.val, 1))
    /\ Len(Split(row.employee_matches.val, 1))
           = Len(Split(row.employee_confidence.val, 1))

\* the pass was aborted by an error in the processing of a review
AbortedInLoop == pc = "raised" /\ pos > 0

\* C17: in every state of the pass, the state an error leaves behind
\* included, every row has its three fields blank (or not yet created), or
\* all three populated with the same number of entries
C17_AllOrNothing ==
    \A r \in 1..Len(df) :
        \/ Unannotated(df[r])
        \/ Blank(df[r])
        \/ Populated(df[r]) /\ SameNumberOfEntries(df[r])

\* the annotations the code can give a row on its own: those of the lists
\* match_employee_to_review can return for its comment and restaurant when
\* it is recent, blanks when it is not, no field without a roster
OwnAnnotations(row) ==
    IF employee_dict = << >> THEN {<<Missing, Missing, Missing>>}
    ELSE IF ~Recent(row) THEN {<<Str(<< >>), Str(<< >>), Str(<< >>)>>}
    ELSE LET r == match_employee_to_review(row.comment, row.restaurant,
                                           employee_dict, DefaultMinSimilarity)
         IN  {Annotations(IF o.matches # << >> THEN Annotated(row, o.matches)
                          ELSE WithBlankColumns(row)) : o \in r.out}

----------------------------------------------------------------------------
(* Order and multiplicity of the matches (SpecMatch)                       *)

\* the first position of x in xs
FirstIndex(xs, x) == CHOOSE i \in 1..Len(xs) : xs[i] = x /\ \A j \in 1..(i - 1) : xs[j] # x

\* C13: under the default threshold the matches are in the order in which the extractor discovered
\* their tokens in the text (patterns first, then capitalized words), so a
\* comment, restaurant and roster have one order of entries
C13_DiscoveryOrderKept ==
    (Returned /\ min_similarity = DefaultMinSimilarity /\ Len(matches) >= 2) =>
        LET d == discovered_names(review_text.val)
        IN  \A i, j \in 1..Len(matches) :
                i < j => FirstIndex(d, matches[i].potential_name)
                             < FirstIndex(d, matches[j].potential_name)

\* C14: no two of the returned matches have the same potential_name
C14_OneMatchPerToken ==
    Returned =>
        \A i, j \in 1..Len(matches) :
            i # j => matches[i].potential_name # matches[j].potential_name

\* a match was returned for a token the extractor discovered more than once
C14_Witness ==
    /\ Returned
    /\ review_text.type = "str"
    /\ \E m \in Emitted :
           LET d == discovered_names(review_text.val)
           IN  Cardinality({i \in 1..Len(d) : d[i] = m.potential_name}) >= 2

----------------------------------------------------------------------------
(* load_employee_list(employee_file_path) on an existing .csv file in the  *)
(* 7shifts format: df holds the rows of the file, employee_dict the dict   *)
(* `employees`, pos the row iterrows is at                                 *)

\* str(cell)
str_of(cell) == IF cell.type = "float" THEN <<"n","a","n">> ELSE cell.val

\* line 31
target_roles == {
    <<"S","e","r","v","e","r">>,
    <<"B","a","r","t","e","n","d","e","r">>,
    <<"B","a","r"," ","P","r","e","p">>}

\* line 35 without the filter: every role is kept
HasTargetRole_any(roles) == TRUE

\* line 35: any(role.lower() in roles for role in target_roles)
HasTargetRole(roles) ==
    \E role \in target_roles : Contains(roles, lower(role))

\* line 53
SystemNames == {
    <<"s","e","r","v","e","r">>,
    <<"p","m">>,
    <<"b","a","r">>,
    <<"c","a","t","e","r","i","n","g">>,
    <<"t","a","k","e">>}

\* lines 46-50
WorksAtRestaurants(locations) ==
    (IF Contains(locations, <<"g","r","a","c","k","l","e">>) THEN <<Grackle>> ELSE << >>)
    \o (IF Contains(locations, <<"m","a","r","g","i","e">>) THEN <<Margies>> ELSE << >>)

\* employees.setdefault(key, value): an entry of the key is left alone
DictSet_keep_first(dict, key, value) ==
    IF \E i \in 1..Len(dict) : Key(dict[i]) = key THEN dict
    ELSE Append(dict, value)

\* employees[key] = value: the value of a key the dict has is replaced where
\* it stands, a new key goes last
DictSet(dict, key, value) ==
    IF \E i \in 1..Len(dict) : Key(dict[i]) = key
    THEN [i \in 1..Len(dict) |-> IF Key(dict[i]) = key THEN value ELSE dict[i]]
    ELSE Append(dict, value)

\* lines 37-43 and 53: the row names a person
NamesPerson(row) ==
    LET first_name == strip(str_of(row.First_Name))
        last_name == strip(str_of(row.Last_name))
    IN  /\ first_name # << >> /\ first_name # <<"n","a","n">>
        /\ last_name # << >> /\ last_name # <<"n","a","n">>
        /\ lower(first_name) \notin SystemNames

\* lines 34-61: the dict after the row
LoadRowInto(employees, row) ==
    LET roles == lower(str_of(row.Roles))
        first_name == strip(str_of(row.First_Name))
        last_name == strip(str_of(row.Last_name))
        locations == lower(str_of(row.Locations))
        full_name == first_name \o <<" ">> \o last_name
        works_at == WorksAtRestaurants(locations)
    IN  IF HasTargetRole(roles) /\ NamesPerson(row) /\ works_at # << >>
        THEN DictSet(employees, lower(first_name),
                     [first_name |-> first_name, full_name |-> full_name,
                      restaurants |-> works_at])
        ELSE employees

MaxFileRows == 4    \* rows in the roster file

\* a row of the file
ShiftsRow(first, last, roles, locations) ==
    [First_Name |-> first, Last_name |-> last, Roles |-> roles,
     Locations |-> locations]

FileRowPool == {
    ShiftsRow(Str(<<"J","a","c","o","b">>),
              Str(<<"S","m","i","t","h">>),
              Str(<<"S","e","r","v","e","r">>),
              Str(<<"G","r","a","c","k","l","e">>)),
    ShiftsRow(Str(<<" ","J","A","C","O","B">>),
              Str(<<"B","e","r","g">>),
              Str(<<"H","e","a","d"," ","B","a","r","t","e","n","d","e","r",","," ","H","o","s","t">>),
              Str(<<"M","a","r","g","i","e","'","s"," ","K","i","t","c","h","e","n">>)),
    ShiftsRow(Str(<<"J","a","c","o","b">>),
              Str(<<"C","o","o","k">>),
              Str(<<"L","i","n","e"," ","C","o","o","k">>),
              Str(<<"G","r","a","c","k","l","e">>)),
    ShiftsRow(Str(<<"S","e","r","v","e","r">>),
              Str(<<"T","w","o">>),
              Str(<<"S","e","r","v","e","r">>),
              Str(<<"G","r","a","c","k","l","e">>)),
    ShiftsRow(Str(<<"A","n","n">>),
              Str(<<"L","e","e">>),
              Str(<<"B","a","r"," ","P","r","e","p">>),
              Str(<<"D","o","w","n","t","o","w","n">>)),
    ShiftsRow(Str(<<"A","n","n">>),
              NaN,
              Str(<<"S","e","r","v","e","r">>),
              Str(<<"G","r","a","c","k","l","e">>)),
    ShiftsRow(Str(<<"W","i","l","l">>),
              Str(<<"H","u","n","t">>),
              Str(<<"s","e","r","v","e","r">>),
              Str(<<"G","R","A","C","K","L","E",","," ","M","A","R","G","I","E","'","S">>)),
    ShiftsRow(NaN,
              Str(<<"D","o","e">>),
              Str(<<"B","a","r","t","e","n","d","e","r">>),
              Str(<<"G","r","a","c","k","l","e">>)),
    ShiftsRow(Str(<<"J","o","y">>),
              Str(<<"K","i","m">>),
              NaN,
              Str(<<"G","r","a","c","k","l","e">>))}

RosterFiles == UNION {[1..n -> FileRowPool] : n \in 0..MaxFileRows}

InitLoad ==
    /\ SyncIdle
    /\ pc = "load"
    /\ df \in RosterFiles
    /\ employee_dict = << >>
    /\ pos = 1
    /\ tz_aware = FALSE /\ now = Now /\ recent = << >>
    /\ Idle

\* one iteration of the loop of line 33
LoadRow ==
    /\ pc = "load"
    /\ pos <= Len(df)
    /\ employee_dict' = LoadRowInto(employee_dict, df[pos])
    /\ pos' = pos + 1
    /\ UNCHANGED syncVars
    /\ UNCHANGED <<pc, a, b, score, review_text, restaurant_name,
                   min_similarity, potential_names, matches, df, tz_aware,
                   now, recent>>

\* line 85
LoadReturn ==
    /\ pc = "load"
    /\ pos > Len(df)
    /\ pc' = "load_done"
    /\ UNCHANGED syncVars
    /\ UNCHANGED <<a, b, score, review_text, restaurant_name, min_similarity,
                   employee_dict, potential_names, matches, df, tz_aware, now,
                   recent, pos>>

NextLoad == LoadRow \/ LoadReturn

SpecLoad == InitLoad /\ [][NextLoad]_vars

----------------------------------------------------------------------------
(* Properties of load_employee_list (SpecLoad)                             *)

\* the rows of the file the loop has been through
RowsRead == {df[i] : i \in 1..(pos - 1)}

FirstNameOf(row) == strip(str_of(row.First_Name))
FullNameOf(row) == FirstNameOf(row) \o <<" ">> \o strip(str_of(row.Last_name))

\* the entry carries the names of the row
BuiltFrom(e, row) ==
    e.first_name = FirstNameOf(row) /\ e.full_name = FullNameOf(row)

Eligible(row) ==
    /\ HasTargetRole(lower(str_of(row.Roles)))
    /\ NamesPerson(row)
    /\ WorksAtRestaurants(lower(str_of(row.Locations))) # << >>

\* the positions of the eligible rows of the file with the key
EligibleAt(key) ==
    {i \in 1..Len(df) : Eligible(df[i]) /\ lower(FirstNameOf(df[i])) = key}

\* C20: for a lowercased first name that several eligible rows of the file
\* share, the loaded roster has exactly one entry, with the full name and
\* the restaurants of the last of these rows
C20_LastRowWins ==
    pc = "load_done" =>
        \A key \in {lower(FirstNameOf(df[i])) : i \in 1..Len(df)} :
            Cardinality(EligibleAt(key)) >= 2 =>
                LET last == CHOOSE i \in EligibleAt(key) :
                                \A j \in EligibleAt(key) : j <= i
                    at == {n \in 1..Len(employee_dict) :
                              Key(employee_dict[n]) = key}
                IN  /\ Cardinality(at) = 1
                    /\ \A n \in at :
                           /\ employee_dict[n].full_name = FullNameOf(df[last])
                           /\ employee_dict[n].restaurants =
                                  WorksAtRestaurants(
                                      lower(str_of(df[last].Locations)))

\* the load returned for a file in which two eligible rows share a key and
\* differ in full name and in restaurants
C20_Witness ==
    /\ pc = "load_done"
    /\ \E i, j \in 1..Len(df) :
           /\ i < j
           /\ Eligible(df[i]) /\ Eligible(df[j])
           /\ lower(FirstNameOf(df[i])) = lower(FirstNameOf(df[j]))
           /\ FullNameOf(df[i]) # FullNameOf(df[j])
           /\ df[i].Locations # df[j].Locations

----------------------------------------------------------------------------
(* Further properties of match_employee_to_review (SpecMatch)              *)

\* an uppercase letter followed by lowercase letters only
Capitalized(word) ==
    /\ word # << >>
    /\ word[1] \in UpperSet
    /\ \A i \in 2..Len(word) : word[i] \in LowerSet

\* C21: every name extract_potential_names returned is a capitalized word,
\* its first letter uppercase and its other letters lowercase
C21_NamesAreCapitalized ==
    Returned => \A n \in SeqRange(potential_names) : Capitalized(n)

\* the positions of the roster entries assigned to the queried restaurant
Assigned == {n \in 1..Len(employee_dict) :
                restaurant_name \in SeqRange(employee_dict[n].restaurants)}

ScoreAt(token, n) == similarity_score(token, employee_dict[n].first_name)

\* C22: the entry emitted for a token is the first one, in the order of the
\* roster, whose score is the highest among the entries assigned to the
\* restaurant, and the confidence is that score
C22_FirstBestEntryIsEmitted ==
    Returned =>
        \A m \in Emitted :
            \E n \in Assigned :
                /\ \A k \in Assigned :
                       ~ScoreGT(ScoreAt(m.potential_name, k),
                                ScoreAt(m.potential_name, n))
                /\ \A k \in Assigned :
                       k < n => ScoreGT(ScoreAt(m.potential_name, n),
                                        ScoreAt(m.potential_name, k))
                /\ m.matched_employee = employee_dict[n].full_name
                /\ ScoreEQ(m.confidence, ScoreAt(m.potential_name, n))

\* under the default threshold a match was emitted for a token that a later
\* entry assigned to the restaurant scores equally
C22_Witness ==
    /\ Returned
    /\ min_similarity = DefaultMinSimilarity
    /\ \E m \in Emitted : \E n, k \in Assigned :
           /\ n < k
           /\ m.matched_employee = employee_dict[n].full_name
           /\ ScoreEQ(ScoreAt(m.potential_name, k), m.confidence)

\* C23: no emitted match has a token whose lowercase form is on the list of
\* line 136, whatever the roster and the threshold
C23_ResolverListNeverMatched ==
    Returned => \A m \in Emitted : lower(m.potential_name) \notin NotNames

\* the call returned without a match for an extracted token of that list
\* which is, ignoring case, the first name of an entry assigned to the
\* restaurant
C23_Witness ==
    /\ Returned
    /\ \E t \in SeqRange(potential_names) : \E n \in Assigned :
           /\ lower(t) \in NotNames
           /\ EqualIgnoringCase(t, employee_dict[n].first_name)
           /\ \A m \in Emitted : m.potential_name # t

----------------------------------------------------------------------------
(* The review sync service: GoogleBusinessClient.fetch_reviews             *)
(* (src/api/google_business.py) and                                        *)
(* ReviewSyncService._sync_restaurant_reviews (src/services/review_sync.py)*)
(*                                                                         *)
(* A review keeps the fields the sync computes with: its id, its rating    *)
(* and its date_updated.  A 'YYYY-MM-DD' string is kept as the number of   *)
(* its day, and 0 is the string ''; a running average is kept as tenths    *)
(* (running_avg_1dec) and as the characters of running_avg_3dec.           *)

\* a key the API left out of a review
Absent == "absent"

\* rating None
NoRating == 0

\* review_data of the API: name, starRating, updateTime
ReviewData(name, starRating, updateTime) ==
    [name |-> name, starRating |-> starRating, updateTime |-> updateTime]

\* an ISO 8601 updateTime, and the updateTime '' of a review without one
Time(day, hour) == [day |-> day, hour |-> hour]
NoTime == [day |-> 0, hour |-> 0]

\* google_business.py lines 95-98
rating_map ==
    [star \in {"ONE", "TWO", "THREE", "FOUR", "FIVE",
               "STAR_RATING_UNSPECIFIED"} |->
        CASE star = "ONE" -> 1
          [] star = "TWO" -> 2
          [] star = "THREE" -> 3
          [] star = "FOUR" -> 4
          [] star = "FIVE" -> 5
          [] OTHER -> NoRating]

\* google_business.py lines 94 and 99: rating_map.get(star_rating, None)
RatingOf(review_data) ==
    LET star_rating == IF review_data.starRating = Absent
                       THEN "STAR_RATING_UNSPECIFIED"
                       ELSE review_data.starRating
    IN  IF star_rating \in DOMAIN rating_map THEN rating_map[star_rating]
        ELSE NoRating

\* _format_date: the date of the timestamp, '' for ''
format_date(date_string) ==
    IF date_string = NoTime THEN 0 ELSE date_string.day

\* the value of a key the dict does not have yet
Unset == << >>

\* _parse_review
parse_review(review_data) ==
    [review_id |-> review_data.name,
     rating |-> RatingOf(review_data),
     date_updated |-> format_date(review_data.updateTime),
     running_avg_1dec |-> Unset,
     running_avg_3dec |-> Unset]

\* page_token None
NoToken == 0

\* the response to the request with the token: the first page without a
\* token, the page the token names with one
PageAt(token) == IF token = NoToken THEN 1 ELSE token

\* data.get('nextPageToken') of page i: the last page has none
NextPageToken(i) == IF i < Len(api) THEN i + 1 ELSE NoToken

\* line 62-63 as "never send a token": every request is for the first page
TokenToSend_none(token) == NoToken

\* lines 61-63: the pageToken of the request
TokenToSend(token) == token

RECURSIVE Insert(_, _)
\* x after the elements of the sorted list xs that are not later than it
Insert(xs, x) ==
    IF xs = << >> THEN <<x>>
    ELSE IF xs[Len(xs)].date_updated <= x.date_updated THEN Append(xs, x)
    ELSE Append(Insert(SubSeq(xs, 1, Len(xs) - 1), x), xs[Len(xs)])

RECURSIVE SortedFrom(_, _, _)
SortedFrom(xs, n, acc) ==
    IF n > Len(xs) THEN acc ELSE SortedFrom(xs, n + 1, Insert(acc, xs[n]))

\* line 134 as "keep the fetch order"
unsorted(xs) == xs

\* review_sync.py line 134: sorted(reviews, key=date_updated), stable
sorted_by_date_updated(xs) == SortedFrom(xs, 1, << >>)

\* the integer nearest to n/d, the even one of two equally near
RoundHalfEven(n, d) ==
    LET q == n \div d
        r == n % d
    IN  IF 2 * r > d THEN q + 1
        ELSE IF 2 * r = d THEN q + (q % 2)
        ELSE q

\* line 141 as a truncation to one decimal
Round1_truncating(sum, k) == (10 * sum) \div k

\* review_sync.py line 141: round(running_sum / k, 1), in tenths
Round1(sum, k) == RoundHalfEven(10 * sum, k)

\* review_sync.py line 143: f"{running_sum / k:.3f}"
Format3f(sum, k) ==
    LET h == RoundHalfEven(1000 * sum, k)
    IN  <<Digits[(h \div 1000) + 1], ".", Digits[((h \div 100) % 10) + 1],
          Digits[((h \div 10) % 10) + 1], Digits[(h % 10) + 1]>>

MaxPages == 3    \* pages the reviews endpoint answers with

\* a response: raise_for_status passes or not, and data['reviews']
Page(ok, page_reviews) == [ok |-> ok, reviews |-> page_reviews]

PagePool == {
    Page(TRUE, <<ReviewData("r1", "FIVE", Time(2, 9)),
                 ReviewData("r2", "ONE", Time(1, 20))>>),
    Page(TRUE, <<ReviewData("r3", "FOUR", Time(2, 7)),
                 ReviewData("r4", "TWO", NoTime)>>),
    Page(TRUE, <<ReviewData("r5", "THREE", Time(3, 0))>>),
    Page(TRUE, <<ReviewData("r6", "STAR_RATING_UNSPECIFIED", Time(3, 1))>>),
    Page(TRUE, <<ReviewData("r7", "SIX", Time(1, 1)),
                 ReviewData("r8", Absent, Time(4, 1))>>),
    Page(TRUE, << >>),
    Page(FALSE, << >>)}

Servers == UNION {[1..n -> PagePool] : n \in 1..MaxPages}

\* config.review_columns, for the columns kept
review_columns ==
    <<"Date Updated", "Rating", "Running Avg", "Running Avg (3 dec)",
      "Review ID">>

\* review_sync.py lines 153-167: the row of a review
RowOf(review) ==
    <<review.date_updated, review.rating, review.running_avg_1dec,
      review.running_avg_3dec, review.review_id>>

InitSync ==
    /\ pc = "fetch"
    /\ api \in Servers
    /\ page_token = NoToken /\ requested = << >>
    /\ collected = << >> /\ reviews = << >> /\ reviews_sorted = << >>
    /\ running_sum = 0 /\ sync_idx = 0 /\ rows = << >> /\ sheet = << >>
    /\ employee_dict = << >> /\ df = << >> /\ pos = 0
    /\ tz_aware = FALSE /\ now = Now /\ recent = << >>
    /\ Idle

\* google_business.py lines 58-77: one request and its response
FetchPage ==
    /\ pc = "fetch"
    /\ LET sent == TokenToSend(page_token)
           i == PageAt(sent)
           data == api[i]
       IN  /\ requested' = Append(requested, sent)
           /\ IF ~data.ok
              THEN \* line 67 raises, lines 82-85 raise again
                   /\ pc' = "fetch_raised"
                   /\ UNCHANGED <<collected, page_token>>
              ELSE /\ collected' = collected \o
                         [n \in 1..Len(data.reviews) |->
                             parse_review(data.reviews[n])]
                   /\ page_token' = NextPageToken(i)
                   /\ pc' = IF NextPageToken(i) = NoToken THEN "fetched"
                            ELSE "fetch"
    /\ UNCHANGED <<api, reviews, reviews_sorted, running_sum, sync_idx, rows,
                   sheet>>
    /\ UNCHANGED scriptVars

\* google_business.py line 80 and review_sync.py line 123
FetchReturn ==
    /\ pc = "fetched"
    /\ reviews' = collected
    /\ pc' = "sync"
    /\ UNCHANGED <<api, page_token, requested, collected, reviews_sorted,
                   running_sum, sync_idx, rows, sheet>>
    /\ UNCHANGED scriptVars

\* review_sync.py lines 128-137
SyncStart ==
    /\ pc = "sync"
    /\ IF reviews = << >>
       THEN /\ pc' = "sync_done"
            /\ UNCHANGED <<reviews_sorted, running_sum, sync_idx>>
       ELSE /\ reviews_sorted' = sorted_by_date_updated(reviews)
            /\ running_sum' = 0
            /\ sync_idx' = 0
            /\ pc' = "average"
    /\ UNCHANGED <<api, page_token, requested, collected, reviews, rows,
                   sheet>>
    /\ UNCHANGED scriptVars

\* review_sync.py lines 138-143 for one review
RunningAverage ==
    /\ pc = "average"
    /\ sync_idx < Len(reviews_sorted)
    /\ LET review == reviews_sorted[sync_idx + 1]
       IN  IF review.rating = NoRating
           THEN \* line 139: int + None raises TypeError
                /\ pc' = "sync_raised"
                /\ UNCHANGED <<reviews_sorted, running_sum, sync_idx>>
           ELSE /\ running_sum' = running_sum + review.rating
                /\ reviews_sorted' =
                       [reviews_sorted EXCEPT ![sync_idx + 1] =
                           [review EXCEPT
                               !.running_avg_1dec =
                                   Round1(running_sum', sync_idx + 1),
                               !.running_avg_3dec =
                                   Format3f(running_sum', sync_idx + 1)]]
                /\ sync_idx' = sync_idx + 1
                /\ pc' = "average"
    /\ UNCHANGED <<api, page_token, requested, collected, reviews, rows,
                   sheet>>
    /\ UNCHANGED scriptVars

\* review_sync.py lines 149-172
WriteRows ==
    /\ pc = "average"
    /\ sync_idx = Len(reviews_sorted)
    /\ rows' = <<review_columns>> \o
                   [n \in 1..Len(reviews_sorted) |->
                       RowOf(reviews_sorted[Len(reviews_sorted) + 1 - n])]
    /\ sheet' = rows'
    /\ pc' = "sync_done"
    /\ UNCHANGED <<api, page_token, requested, collected, reviews,
                   reviews_sorted, running_sum, sync_idx>>
    /\ UNCHANGED scriptVars

NextSync == FetchPage \/ FetchReturn \/ SyncStart \/ RunningAverage \/ WriteRows

SpecSync == InitSync /\ [][NextSync]_vars

(***************************************************************************)
(* Properties of the review sync service (SpecSync)                        *)
(***************************************************************************)

RECURSIVE SumOfRatings(_, _)
\* the sum of the ratings of the first k reviews of xs
SumOfRatings(xs, k) ==
    IF k = 0 THEN 0 ELSE SumOfRatings(xs, k - 1) + xs[k].rating

Abs(n) == IF n < 0 THEN -n ELSE n

DigitValue(c) == CHOOSE d \in 0..9 : Digits[d + 1] = c

\* the number of thousandths a string "d.ddd" stands for
Thousandths(s) ==
    1000 * DigitValue(s[1]) + 100 * DigitValue(s[3]) + 10 * DigitValue(s[4])
        + DigitValue(s[5])

\* units/scale is a value nearest to sum/k among the multiples of 1/scale
NearestTo(units, scale, sum, k) == 2 * Abs(scale * sum - units * k) <= k

Ascending(xs) ==
    \A i \in 1..Len(xs) : \A j \in 1..Len(xs) :
        i < j => xs[i].date_updated <= xs[j].date_updated

\* what the service fetched about a review
Fetched(review) ==
    <<review.review_id, review.rating, review.date_updated>>

FetchedBag(xs) ==
    LET S == {Fetched(xs[i]) : i \in 1..Len(xs)}
    IN  [f \in S |-> Cardinality({i \in 1..Len(xs) : Fetched(xs[i]) = f})]

Sorting == pc \in {"average", "sync_raised"} \/ (pc = "sync_done" /\ reviews # << >>)

\* C24: reviews_sorted holds the fetched reviews in ascending date_updated
\* order, and the running averages stored on the review at position k, once
\* the loop has passed it, are the one-decimal and the three-decimal values
\* nearest to (sum of the ratings of the first k reviews) / k.
C24_RunningAverageOfFirstK ==
    Sorting =>
        /\ Ascending(reviews_sorted)
        /\ FetchedBag(reviews_sorted) = FetchedBag(reviews)
        /\ \A k \in 1..sync_idx :
               LET sum == SumOfRatings(reviews_sorted, k)
                   review == reviews_sorted[k]
               IN  /\ NearestTo(review.running_avg_1dec, 10, sum, k)
                   /\ NearestTo(Thousandths(review.running_avg_3dec), 1000,
                                sum, k)

\* the averages of three or more reviews that were fetched in another order
\* than their dates, with an average that is not a whole number
C24_Witness ==
    /\ pc = "sync_done"
    /\ Len(reviews_sorted) >= 3
    /\ \E i \in 1..Len(reviews) :
           reviews[i].review_id # reviews_sorted[i].review_id
    /\ \E k \in 1..Len(reviews_sorted) :
           SumOfRatings(reviews_sorted, k) % k # 0

\* the columns of a written row
DateUpdatedOf(row) == row[1]
RatingIn(row) == row[2]
RunningAvgOf(row) == row[3]
RunningAvg3Of(row) == row[4]
ReviewIdOf(row) == row[5]

\* the data rows of the tab: all rows after the header
DataRows == SubSeq(sheet, 2, Len(sheet))

RowBag(xs) ==
    LET f(row) == <<ReviewIdOf(row), RatingIn(row), DateUpdatedOf(row)>>
        S == {f(xs[i]) : i \in 1..Len(xs)}
    IN  [r \in S |-> Cardinality({i \in 1..Len(xs) : f(xs[i]) = r})]

Written == sheet # << >>

\* C25: what is written to the tab is the header row followed by exactly
\* one row per fetched review, newest date_updated first, and the first data
\* row carries the running average over all the reviews.
C25_HeaderThenNewestFirst ==
    /\ (pc = "sync_done" /\ reviews # << >>) => Written
    /\ Written =>
        /\ sheet[1] = review_columns
        /\ Len(DataRows) = Len(reviews)
        /\ RowBag(DataRows) = FetchedBag(reviews)
        /\ \A i \in 1..Len(DataRows) : \A j \in 1..Len(DataRows) :
               i < j => DateUpdatedOf(DataRows[i]) >= DateUpdatedOf(DataRows[j])
        /\ LET n == Len(reviews)
               sum == SumOfRatings(reviews, n)
           IN  /\ NearestTo(RunningAvgOf(DataRows[1]), 10, sum, n)
               /\ NearestTo(Thousandths(RunningAvg3Of(DataRows[1])), 1000,
                            sum, n)

\* a written tab of three or more reviews, fetched oldest first somewhere,
\* two of them updated on the same day
C25_Witness ==
    /\ pc = "sync_done" /\ Written
    /\ Len(DataRows) >= 3
    /\ \E i \in 1..Len(reviews) : \E j \in 1..Len(reviews) :
           i < j /\ reviews[i].date_updated < reviews[j].date_updated
    /\ \E i \in 1..Len(DataRows) : \E j \in 1..Len(DataRows) :
           i # j /\ DateUpdatedOf(DataRows[i]) = DateUpdatedOf(DataRows[j])

\* the page a request was answered with
Answer(i) == api[PageAt(requested[i])]

\* the token the answer to request i carried
TokenOfAnswer(i) == NextPageToken(PageAt(requested[i]))

RECURSIVE ReviewsOfRequests(_)
\* the parsed reviews of the answers to the first n requests, in that order
ReviewsOfRequests(n) ==
    IF n = 0 THEN << >>
    ELSE ReviewsOfRequests(n - 1) \o
             [k \in 1..Len(Answer(n).reviews) |->
                 parse_review(Answer(n).reviews[k])]

Fetching == pc = "fetch"
FetchRaised == pc = "fetch_raised"
FetchReturned == pc \notin {"fetch", "fetched", "fetch_raised"}

\* C26: the first request carries no token and every later one the token of
\* the answer before it; every answer but the last succeeded and carried a
\* token; fetch_reviews returns after the first answer without a token, and
\* then returns the reviews of all the requested pages in page order; after
\* a failed request it raises and the caller receives no list.
C26_PagesAreFollowedInOrder ==
    LET n == Len(requested)
    IN  /\ \A i \in 1..n :
               requested[i] = IF i = 1 THEN NoToken ELSE TokenOfAnswer(i - 1)
        /\ \A i \in 1..(n - 1) : Answer(i).ok /\ TokenOfAnswer(i) # NoToken
        /\ (Fetching /\ n > 0) => Answer(n).ok /\ TokenOfAnswer(n) # NoToken
        /\ ~(Fetching \/ FetchRaised) =>
               /\ n > 0 /\ Answer(n).ok /\ TokenOfAnswer(n) = NoToken
               /\ collected = ReviewsOfRequests(n)
        /\ FetchReturned => reviews = ReviewsOfRequests(n)
        /\ FetchRaised => n > 0 /\ ~Answer(n).ok
        /\ ~FetchReturned => reviews = << >>

\* three pages were requested and their reviews returned
C26_Witness ==
    /\ FetchReturned
    /\ requested = <<NoToken, 2, 3>>
    /\ Len(reviews) >= 4
    /\ \E i \in 1..3 : Answer(i) # Answer(1)

\* a second page failed after the first had delivered reviews
C26_FailureWitness ==
    /\ FetchRaised
    /\ Len(requested) >= 2
    /\ collected # << >>

SyncRaised == pc = "sync_raised"

\* C27: whatever reviews were fetched, those with an unspecified or
\* unrecognised star rating included, the running-average loop completes:
\* _sync_restaurant_reviews never stops with an exception in it.
C27_SyncCompletesOnMissingRatings == ~SyncRaised

\* where the loop stops: at the first review, in date order, without rating
C27_StopsAtFirstMissingRating ==
    SyncRaised =>
        /\ sync_idx < Len(reviews_sorted)
        /\ reviews_sorted[sync_idx + 1].rating = NoRating
        /\ \A k \in 1..sync_idx : reviews_sorted[k].rating # NoRating
        /\ ~Written

(***************************************************************************)
(* Further properties of load_employee_list (SpecLoad)                     *)
(***************************************************************************)

\* the restaurants line 46-50 assign the row to
RestaurantsOf(row) ==
    SeqRange(WorksAtRestaurants(lower(str_of(row.Locations))))

\* the roster holds the first name of the row at the restaurant
RepresentedAt(row, restaurant) ==
    \E e \in SeqRange(employee_dict) :
        /\ lower(e.first_name) = lower(FirstNameOf(row))
        /\ restaurant \in SeqRange(e.restaurants)

\* C28: every eligible row of the file is represented in the loaded roster:
\* for each restaurant the row is assigned to, the roster holds an entry
\* with the first name of the row that is assigned to that restaurant.
C28_EveryEligibleRowIsRepresented ==
    pc = "load_done" =>
        \A i \in 1..Len(df) :
            Eligible(df[i]) =>
                \A restaurant \in RestaurantsOf(df[i]) :
                    RepresentedAt(df[i], restaurant)

\* what the roster does hold: the last eligible row of every first name
C28_LastEligibleRowIsRepresented ==
    pc = "load_done" =>
        \A i \in 1..Len(df) :
            (Eligible(df[i]) /\ \A j \in EligibleAt(lower(FirstNameOf(df[i]))) : j <= i)
                => \A restaurant \in RestaurantsOf(df[i]) :
                       RepresentedAt(df[i], restaurant)

(***************************************************************************)
(* The frame of add_employee_matches_to_dataframe (Spec)                   *)
(***************************************************************************)

\* the columns of a row other than the three annotation columns
OtherColumns(row) == <<row.restaurant, row.comment, row.published_datetime>>

\* C29: no step of the pass changes the number or the order of the review
\* rows, the value of a column other than the three annotation columns, or
\* the roster.
C29_OnlyAnnotationsChange ==
    [][/\ Len(df') = Len(df)
       /\ \A r \in 1..Len(df) : OtherColumns(df'[r]) = OtherColumns(df[r])
       /\ employee_dict' = employee_dict]_vars

\* a finished pass over two different reviews that annotated the second
C29_Witness ==
    /\ Finished
    /\ Len(df) = 2
    /\ OtherColumns(df[1]) # OtherColumns(df[2])
    /\ Populated(df[2])
    /\ Len(employee_dict) = 2

(***************************************************************************)
(* add_employee_matches_to_dataframe of process_takeout.py.  Its lines     *)
(* 93-210 are, character for character, lines 91-208 of create_dataset.py, *)
(* so Start and Iterate are its steps too; where create_dataset.py         *)
(* returns, it first prints a summary of the matches (lines 213-232).      *)
(***************************************************************************)

\* a roster entry whose full name holds '; ; '
JacobSmithJr ==
    [first_name |-> <<"J","a","c","o","b">>,
     full_name |-> <<"J","a","c","o","b"," ","S","m","i","t","h",";"," ",";",
                     " ","J","r">>,
     restaurants |-> <<Grackle>>]

TakeoutRosters == Rosters \cup {<<JacobSmithJr>>}

InitTakeout ==
    /\ SyncIdle
    /\ pc = "start"
    /\ employee_dict \in TakeoutRosters
    /\ df \in Batches
    /\ tz_aware \in {t \in BOOLEAN :
                       t => \E i \in 1..Len(df) : ~df[i].published_datetime.nat}
    /\ now = Now
    /\ recent = << >> /\ pos = 0
    /\ Idle

\* process_takeout.py lines 216-221: the names of all_matches
AllMatches ==
    UNION {SeqRange(Split(df[recent[n]].employee_matches.val, 1)) :
              n \in {k \in 1..Len(recent) :
                        df[recent[k]].employee_matches.val # << >>}}

\* process_takeout.py lines 213-234, for fewer than ten different names
Summary ==
    /\ pc = "loop"
    /\ pos > Len(recent)
    /\ LET matches_found ==
               Cardinality({n \in 1..Len(recent) :
                               df[recent[n]].employee_matches.val # << >>})
       IN  IF matches_found > 0 /\ \E employee \in AllMatches : strip(employee) = << >>
           THEN \* line 227: employee.split()[0] raises IndexError
                pc' = "summary_raised"
           ELSE pc' = "done"
    /\ UNCHANGED syncVars
    /\ UNCHANGED <<a, b, score, review_text, restaurant_name, min_similarity,
                   employee_dict, potential_names, matches, df, tz_aware, now,
                   recent, pos>>

NextTakeout == Start \/ Iterate \/ Summary

SpecTakeout == InitTakeout /\ [][NextTakeout]_vars

\* the copy of process_takeout.py has left its loop
TakeoutEnded == pc \in {"done", "summary_raised"}

C30_SummaryRaised == pc = "summary_raised"

====
